---- MODULE Spec2Model ----
(***************************************************************************)
(* Model of redis-top-keys-analyzer.py: the SCAN loop, the per-key         *)
(* inspection (MEMORY USAGE + TYPE inside try/except), the per-type lists  *)
(* type_keys, and the report (per-type top 10 tables and the summary).     *)
(***************************************************************************)
EXTENDS Integers, Sequences, FiniteSets, Bags, TLC

VARIABLES
    pc,          \* position of the script: "scan", "for", "done", "aborted"
    cursor,      \* the variable cursor (line 50, 52)
    keys,        \* keys of the current batch the for loop has not visited yet
    type_keys,   \* defaultdict(list): observed type -> sequence of <<mem, key>>
    scanned,     \* counter scanned
    errors,      \* counter errors
    tables,      \* per-type tables printed by lines 77-102, in print order
    summary,     \* summary rows printed by lines 115-121, in print order
    calls,       \* history: <<cursor passed, cursor returned, batch length>> of every r.scan call
    fed,         \* history: bag of <<type, mem, key>> replies with a non-zero memory
    listed,      \* history: number of key names the scanner returned so far
    listedKeys,  \* history: set of key names the scanner returned so far
    nFail,       \* history: number of inspections in which a query raised
    nZero,       \* history: number of inspections whose memory reply was 0 or None
    scanFailed   \* history: an r.scan call raised

vars == <<pc, cursor, keys, type_keys, scanned, errors, tables, summary,
          calls, fed, listed, listedKeys, nFail, nZero, scanFailed>>

-----------------------------------------------------------------------------
(* Bounds of the model *)

\* r.scan calls of one run
MaxCalls == 2
\* observations appended in the ranking specification
MaxObs == 11

\* key names the store holds
Keys == {"a", "b"}
\* batches one r.scan call may return (a later call may repeat a name)
Batches ==
    {<<>>} \cup {<<k>> : k \in Keys}
           \cup {<<j, k>> : <<j, k>> \in {p \in Keys \X Keys : p[1] # p[2]}}
\* cursors the store returns
Cursors == {0, 5}
\* replies of r.type
Types == {"string", "hash", "ReJSON-RL"}
\* observations fed in the ranking specification
RankObs == {<<"string", 2, "a">>, <<"string", 1, "ab">>, <<"string", 1, "b">>}

-----------------------------------------------------------------------------
(* Python values *)

\* Python's None as a memory_usage reply (the store never replies a negative size)
None == -1
\* replies of r.memory_usage
MemReplies == {None, 0, 1, 2}

\* code points of the strings the model uses (Python compares str by code point)
Chars ==
    ("a" :> <<97>>) @@ ("ab" :> <<97, 98>>) @@ ("b" :> <<98>>) @@
    ("string" :> <<115, 116, 114, 105, 110, 103>>) @@
    ("list" :> <<108, 105, 115, 116>>) @@
    ("set" :> <<115, 101, 116>>) @@
    ("zset" :> <<122, 115, 101, 116>>) @@
    ("hash" :> <<104, 97, 115, 104>>) @@
    ("stream" :> <<115, 116, 114, 101, 97, 109>>) @@
    ("ReJSON-RL" :> <<82, 101, 74, 83, 79, 78, 45, 82, 76>>)

Min(a, b) == IF a < b THEN a ELSE b

\* u < v for sequences of code points, lexicographically
LexLess(u, v) ==
    \/ \E i \in 1..Min(Len(u), Len(v)) :
          /\ \A j \in 1..(i - 1) : u[j] = v[j]
          /\ u[i] < v[i]
    \/ /\ Len(u) < Len(v)
       /\ \A j \in 1..Len(u) : u[j] = v[j]

\* s < t for Python str
StrLess(s, t) == LexLess(Chars[s], Chars[t])

\* variant: a sort keyed on the memory alone
TupleLessMemOnly(x, y) == x[1] < y[1]
\* x < y for the tuples (mem, key) of type_keys, compared mem first
TupleLess(x, y) ==
    \/ x[1] < y[1]
    \/ x[1] = y[1] /\ StrLess(x[2], y[2])

\* variant: "if mem is not None"
TruthyNotNone(m) == m # None
\* truth value of a memory reply in "if mem" (line 59)
Truthy(m) == m # None /\ m # 0

-----------------------------------------------------------------------------
(* sorted(..., reverse=True)[:10] and the totals, lines 81, 96-98 *)

TopN == 10

RECURSIVE InsertDesc(_, _)
\* x placed behind every element that is not less than x (a stable descending sort)
InsertDesc(x, s) ==
    IF s = <<>> THEN <<x>>
    ELSE IF TupleLess(Head(s), x) THEN <<x>> \o s
    ELSE <<Head(s)>> \o InsertDesc(x, Tail(s))

RECURSIVE SortedReverse(_)
\* variant: the list left in arrival order
SortedReverseUnsorted(l) == l
SortedReverse(l) ==
    IF l = <<>> THEN <<>>
    ELSE InsertDesc(l[Len(l)], SortedReverse(SubSeq(l, 1, Len(l) - 1)))

\* variant: no slice
TakeAll(l, n) == l
\* l[:n]
Take(l, n) == SubSeq(l, 1, Min(n, Len(l)))

sorted_keys(l) == Take(SortedReverse(l), TopN)

RECURSIVE SumMem(_)
\* sum(m for m, _ in l)
SumMem(l) == IF l = <<>> THEN 0 ELSE l[1][1] + SumMem(Tail(l))

-----------------------------------------------------------------------------
(* type_keys[key_type].append((mem, key)), line 60 *)

\* variant: the list replaced instead of extended
AppendObsReplace(tk, t, m, k) == (t :> <<<<m, k>>>>) @@ tk
AppendObs(tk, t, m, k) ==
    IF t \in DOMAIN tk
    THEN [tk EXCEPT ![t] = Append(@, <<m, k>>)]
    ELSE tk @@ (t :> <<<<m, k>>>>)

-----------------------------------------------------------------------------
(* The report, lines 71-123 *)

DisplayOrder == <<"string", "list", "set", "zset", "hash", "stream">>

\* the row block printed for one type, lines 81-102
Table(t, l, top) ==
    [type |-> t,
     rows |-> top,
     total_keys |-> Len(l),
     total_mem |-> SumMem(l),
     top10_mem |-> SumMem(top)]

RECURSIVE TablesFrom(_, _)
\* the loop of line 77 over a list of type names
TablesFrom(tk, order) ==
    IF order = <<>> THEN <<>>
    ELSE IF Head(order) \notin DOMAIN tk THEN TablesFrom(tk, Tail(order))
    ELSE LET top == sorted_keys(tk[Head(order)])
         IN IF top = <<>> THEN TablesFrom(tk, Tail(order))
            ELSE <<Table(Head(order), tk[Head(order)], top)>>
                     \o TablesFrom(tk, Tail(order))

Tables(tk) == TablesFrom(tk, DisplayOrder)

RECURSIVE SortedStrs(_)
\* sorted(S) for a set of distinct str
SortedStrs(S) ==
    IF S = {} THEN <<>>
    ELSE LET m == CHOOSE x \in S : \A y \in S \ {x} : StrLess(x, y)
         IN <<m>> \o SortedStrs(S \ {m})

\* the rows of the summary, lines 115-121
Summary(tk) ==
    LET order == SortedStrs(DOMAIN tk)
    IN [i \in 1..Len(order) |->
          [type |-> order[i],
           count |-> Len(tk[order[i]]),
           mem |-> SumMem(tk[order[i]])]]

-----------------------------------------------------------------------------
(* The script *)

\* variant: the call retried
AfterScanRaiseRetry == "scan"
\* where the script is after r.scan raised: the exception is not caught
AfterScanRaise == "aborted"

\* variant: r.type called outside the try block
CaughtMemOnly(memErr, typeErr) == memErr
\* the except clause of line 65 catches the error of either query
Caught(memErr, typeErr) == memErr \/ typeErr

\* variant: every call restarts at cursor 0
ScanArgZero(c) == 0
\* the cursor passed to r.scan, line 52
ScanArg(c) == c

\* the test of line 68
LoopEnds(c) == c = 0

Init ==
    /\ pc = "scan"
    /\ cursor = 0
    /\ keys = <<>>
    /\ type_keys = <<>>
    /\ scanned = 0
    /\ errors = 0
    /\ tables = <<>>
    /\ summary = <<>>
    /\ calls = <<>>
    /\ fed = EmptyBag
    /\ listed = 0
    /\ listedKeys = {}
    /\ nFail = 0
    /\ nZero = 0
    /\ scanFailed = FALSE

\* line 52: r.scan returns (cursor, keys)
Scan ==
    /\ pc = "scan"
    /\ Len(calls) < MaxCalls
    /\ \E c \in Cursors, b \in Batches :
          /\ cursor' = c
          /\ keys' = b
          /\ calls' = Append(calls, <<ScanArg(cursor), c, Len(b)>>)
          /\ listed' = listed + Len(b)
          /\ listedKeys' = listedKeys \cup {b[i] : i \in 1..Len(b)}
    /\ pc' = "for"
    /\ UNCHANGED <<type_keys, scanned, errors, tables, summary, fed, nFail, nZero,
                   scanFailed>>

\* line 52: r.scan raises; nothing catches it and the script ends
ScanFail ==
    /\ pc = "scan"
    /\ Len(calls) < MaxCalls
    /\ calls' = Append(calls, <<ScanArg(cursor), None, 0>>)
    /\ scanFailed' = TRUE
    /\ pc' = AfterScanRaise
    /\ UNCHANGED <<cursor, keys, type_keys, scanned, errors, tables, summary, fed,
                   listed, listedKeys, nFail, nZero>>

\* lines 54-66: one iteration of the for loop; memErr and typeErr say whether
\* r.memory_usage and r.type raise, m and t are what they return otherwise
Inspect ==
    /\ pc = "for"
    /\ keys # <<>>
    /\ \E memErr \in BOOLEAN, typeErr \in BOOLEAN, m \in MemReplies, t \in Types :
          LET key == Head(keys)
              raised == memErr \/ typeErr
          IN /\ IF raised
                THEN /\ errors' = errors + (IF Caught(memErr, typeErr) THEN 1 ELSE 0)
                     /\ pc' = IF Caught(memErr, typeErr) THEN "for" ELSE "aborted"
                     /\ UNCHANGED <<type_keys, scanned>>
                ELSE /\ IF Truthy(m)
                        THEN /\ type_keys' = AppendObs(type_keys, t, m, key)
                             /\ scanned' = scanned + 1
                        ELSE UNCHANGED <<type_keys, scanned>>
                     /\ UNCHANGED <<errors, pc>>
             /\ nFail' = nFail + (IF raised THEN 1 ELSE 0)
             /\ nZero' = nZero + (IF ~raised /\ m \in {None, 0} THEN 1 ELSE 0)
             /\ fed' = IF ~raised /\ m \notin {None, 0}
                       THEN fed (+) SetToBag({<<t, m, key>>})
                       ELSE fed
    /\ keys' = Tail(keys)
    /\ UNCHANGED <<cursor, tables, summary, calls, listed, listedKeys, scanFailed>>

\* lines 68-69 with a non-zero cursor: the while loop goes round
Continue ==
    /\ pc = "for"
    /\ keys = <<>>
    /\ ~LoopEnds(cursor)
    /\ pc' = "scan"
    /\ UNCHANGED <<cursor, keys, type_keys, scanned, errors, tables, summary,
                   calls, fed, listed, listedKeys, nFail, nZero, scanFailed>>

\* lines 68-123 with cursor zero: break, then the report
Finish ==
    /\ pc = "for"
    /\ keys = <<>>
    /\ LoopEnds(cursor)
    /\ tables' = Tables(type_keys)
    /\ summary' = Summary(type_keys)
    /\ pc' = "done"
    /\ UNCHANGED <<cursor, keys, type_keys, scanned, errors,
                   calls, fed, listed, listedKeys, nFail, nZero, scanFailed>>

Next == Scan \/ ScanFail \/ Inspect \/ Continue \/ Finish

Spec == Init /\ [][Next]_vars

-----------------------------------------------------------------------------
(* The ranking on its own: the last batch of a scan delivers any sequence of *)
(* up to MaxObs observations, each recorded by lines 60-61, then the report. *)

InitRank ==
    /\ pc = "for"
    /\ cursor = 0
    /\ keys = <<>>
    /\ type_keys = <<>>
    /\ scanned = 0
    /\ errors = 0
    /\ tables = <<>>
    /\ summary = <<>>
    /\ calls = <<<<0, 0, 0>>>>
    /\ fed = EmptyBag
    /\ listed = 0
    /\ listedKeys = {}
    /\ nFail = 0
    /\ nZero = 0
    /\ scanFailed = FALSE

\* lines 56-61 for a key whose queries reply o = <<type, mem, key>>
Observe ==
    /\ pc = "for"
    /\ keys = <<>>
    /\ listed < MaxObs
    /\ \E o \in RankObs :
          /\ Truthy(o[2])
          /\ type_keys' = AppendObs(type_keys, o[1], o[2], o[3])
          /\ fed' = fed (+) SetToBag({o})
          /\ listedKeys' = listedKeys \cup {o[3]}
    /\ scanned' = scanned + 1
    /\ listed' = listed + 1
    /\ UNCHANGED <<pc, cursor, keys, errors, tables, summary, calls, nFail, nZero,
                   scanFailed>>

NextRank == Observe \/ Finish

SpecRank == InitRank /\ [][NextRank]_vars

-----------------------------------------------------------------------------
(* Vocabulary of the properties, stated on the histories and the output *)

Range(s) == {s[i] : i \in DOMAIN s}

\* number of tuples recorded over all types
RECURSIVE TotalObs(_, _)
TotalObs(tk, S) ==
    IF S = {} THEN 0
    ELSE LET t == CHOOSE x \in S : TRUE
         IN Len(tk[t]) + TotalObs(tk, S \ {t})

Observations(tk) == TotalObs(tk, DOMAIN tk)

\* the bag of the elements of a sequence
SeqBag(s) == [x \in Range(s) |-> Cardinality({i \in DOMAIN s : s[i] = x})]

\* the types for which some observation was fed
FedTypes == {o[1] : o \in BagToSet(fed)}

\* the bag of <<mem, key>> fed for type t
FedOf(t) ==
    [x \in {<<o[2], o[3]>> : o \in {p \in BagToSet(fed) : p[1] = t}}
        |-> CopiesIn(<<t, x[1], x[2]>>, fed)]

RECURSIVE BagSumOver(_, _)
BagSumOver(B, S) ==
    IF S = {} THEN 0
    ELSE LET x == CHOOSE y \in S : TRUE
         IN x[1] * B[x] + BagSumOver(B, S \ {x})

\* the summed memory of a bag of <<mem, key>>
BagSum(B) == BagSumOver(B, BagToSet(B))

\* x ranks strictly before y: more memory, or equal memory and the greater name
Above(x, y) ==
    \/ x[1] > y[1]
    \/ x[1] = y[1] /\ LexLess(Chars[y[2]], Chars[x[2]])

RECURSIVE RankOfBag(_, _)
\* the n greatest elements of a bag, greatest first: a function of the bag alone
RankOfBag(B, n) ==
    IF n = 0 \/ BagToSet(B) = {} THEN <<>>
    ELSE LET x == CHOOSE y \in BagToSet(B) :
                      \A z \in BagToSet(B) : z = y \/ Above(y, z)
         IN <<x>> \o RankOfBag(B (-) SetToBag({x}), n - 1)

TableTypes == [i \in DOMAIN tables |-> tables[i].type]
SummaryTypes == [i \in DOMAIN summary |-> summary[i].type]

\* the number of recorded tuples that carry key name k
RECURSIVE NameCountOver(_, _)
NameCountOver(k, S) ==
    IF S = {} THEN 0
    ELSE LET t == CHOOSE x \in S : TRUE
         IN Cardinality({i \in DOMAIN type_keys[t] : type_keys[t][i][2] = k})
              + NameCountOver(k, S \ {t})

NameCount(k) == NameCountOver(k, DOMAIN type_keys)

LoopEnded == pc = "done"

-----------------------------------------------------------------------------
(* C1 *)

\* C1 (Completeness): when the scan loop has ended after the scanner listed
\* every key exactly once and every inspection replied a non-zero memory, the
\* buckets together hold as many tuples as there are keys, and so does scanned.
C1_Completeness ==
    (LoopEnded /\ nFail = 0 /\ nZero = 0 /\ listed = Cardinality(listedKeys))
        => /\ Observations(type_keys) = Cardinality(listedKeys)
           /\ scanned = Cardinality(listedKeys)

\* both keys listed once, the second in the batch that came with cursor zero
C1_Witness ==
    /\ LoopEnded /\ nFail = 0 /\ nZero = 0
    /\ listed = 2 /\ listedKeys = {"a", "b"}
    /\ Len(calls) = 2 /\ calls[2][2] = 0 /\ calls[2][3] = 1
    /\ scanned = 2

-----------------------------------------------------------------------------
(* C2 *)

\* C2 as stated: at the report the error counter is the number N of failed
\* inspections and the buckets hold exactly M - N tuples, M the keys listed.
C2_Original ==
    LoopEnded => /\ errors = nFail
                 /\ Observations(type_keys) = listed - nFail

C2_Final ==
    /\ LoopEnded => /\ errors = nFail
                    /\ Observations(type_keys) = listed - nFail - nZero
    /\ pc = "aborted" => scanFailed

C2_Step ==
    nFail' # nFail => /\ errors' = errors + 1
                      /\ type_keys' = type_keys
                      /\ pc' = "for"
                      /\ keys' = Tail(keys)

\* C2 (Non-fatal tolerance, amended): at the report the error counter is the
\* number N of inspections in which a query raised, and the buckets hold
\* M - N - Z tuples, Z the inspections whose memory reply was zero or absent;
\* an inspection that raises changes no bucket, leaves the rest of the batch
\* to be inspected, and never ends the run (only a failed r.scan does).
C2_Tolerance == []C2_Final /\ [][C2_Step]_vars

\* a failure on the first key of a batch, the second key still recorded
C2_Witness ==
    /\ LoopEnded /\ nFail = 1 /\ errors = 1 /\ nZero = 1
    /\ listed = 3 /\ Observations(type_keys) = 1

-----------------------------------------------------------------------------
(* C3 *)

\* C3 (Scan termination): the first r.scan call passes cursor 0, each later
\* call passes the cursor the call before returned, no call follows one that
\* returned 0, and the loop has ended only with the batch of that call used up.
C3_ScanTermination ==
    /\ calls # <<>> => calls[1][1] = 0
    /\ \A i \in 2..Len(calls) :
          /\ calls[i][1] = calls[i - 1][2]
          /\ calls[i - 1][2] # 0
    /\ LoopEnded => /\ calls # <<>>
                    /\ calls[Len(calls)][2] = 0
                    /\ keys = <<>>
                    /\ nFail + nZero + Observations(type_keys) = listed
    /\ (pc = "scan" /\ calls # <<>>) => calls[Len(calls)][2] # 0

\* returned cursors 5 then 0: two calls, the second passing 5
C3_Witness ==
    /\ LoopEnded
    /\ Len(calls) = 2
    /\ calls[1] = <<0, 5, 1>>
    /\ calls[2] = <<5, 0, 1>>

-----------------------------------------------------------------------------
(* C4 *)

\* C4 (Order independence): whatever the order the observations arrived in,
\* the report's ranked rows, total count and total bytes of each type are those
\* determined by the bag of the type's observations alone.
C4_OrderIndependence ==
    LoopEnded =>
        /\ \A t \in FedTypes : \E i \in DOMAIN tables :
              /\ tables[i].type = t
              /\ tables[i].rows = RankOfBag(FedOf(t), TopN)
              /\ tables[i].total_keys = BagCardinality(FedOf(t))
              /\ tables[i].total_mem = BagSum(FedOf(t))
        /\ \A t \in FedTypes : \E i \in DOMAIN summary :
              /\ summary[i].type = t
              /\ summary[i].count = BagCardinality(FedOf(t))
              /\ summary[i].mem = BagSum(FedOf(t))

\* three observations with distinct names that arrived in an unranked order
C4_Witness ==
    /\ LoopEnded
    /\ DOMAIN type_keys = {"string"}
    /\ type_keys["string"] = <<<<1, "ab">>, <<2, "a">>, <<1, "b">>>>
    /\ tables[1].rows = <<<<2, "a">>, <<1, "b">>, <<1, "ab">>>>

-----------------------------------------------------------------------------
(* C5 *)

\* C5 (Top-K bound): every observed type's ranked list has min(10, n) rows
\* for the n observations of the type, its rows are observations of the type,
\* no observation left out has more memory than a row, and the type's total
\* count and bytes are at least the list's length and summed memory.
C5_TopKBound ==
    LoopEnded =>
        \A t \in FedTypes : \E i \in DOMAIN tables :
            LET T == tables[i]
                B == FedOf(t)
                R == SeqBag(T.rows)
            IN /\ T.type = t
               /\ Len(T.rows) <= 10
               /\ Len(T.rows) = Min(10, BagCardinality(B))
               /\ R \sqsubseteq B
               /\ \A x \in BagToSet(B (-) R), y \in BagToSet(R) : y[1] >= x[1]
               /\ T.total_keys >= Len(T.rows)
               /\ T.total_mem >= BagSum(R)

\* eleven observations of one type: ten rows, the one left out is a smallest
C5_Witness ==
    /\ LoopEnded
    /\ Len(tables) = 1
    /\ tables[1].total_keys = 11
    /\ Len(tables[1].rows) = 10
    /\ tables[1].rows[10][1] = 2
    /\ tables[1].total_mem > tables[1].top10_mem

-----------------------------------------------------------------------------
(* C6 *)

\* C6 (Tie-break determinism): every ranked list is sorted descending by
\* (memory, key name), so of two rows with equal memory the greater name comes
\* first; and an observation left out of the list never has the memory of a
\* row and a greater name than that row.
C6_TieBreak ==
    LoopEnded =>
        \A i \in DOMAIN tables :
            LET rows == tables[i].rows
                out == FedOf(tables[i].type) (-) SeqBag(rows)
            IN /\ \A j, l \in DOMAIN rows :
                     j < l => (rows[j] = rows[l] \/ Above(rows[j], rows[l]))
               /\ \A x \in BagToSet(out), y \in BagToSet(SeqBag(rows)) :
                     x[1] = y[1] => ~LexLess(Chars[y[2]], Chars[x[2]])

\* a tie at the cut: "ab" arrived before "b", "b" takes the tenth row
C6_Witness ==
    /\ LoopEnded
    /\ DOMAIN type_keys = {"string"}
    /\ Len(type_keys["string"]) = 11
    /\ type_keys["string"][1] = <<1, "ab">>
    /\ CopiesIn(<<"string", 1, "b">>, fed) = 1
    /\ CopiesIn(<<"string", 1, "ab">>, fed) = 1
    /\ tables[1].rows[10] = <<1, "b">>

-----------------------------------------------------------------------------
(* C7 *)

C7_Step ==
    nZero' # nZero => /\ type_keys' = type_keys
                      /\ scanned' = scanned
                      /\ errors' = errors
                      /\ pc' = "for"
                      /\ keys' = Tail(keys)

C7_NoneRecorded ==
    /\ \A t \in DOMAIN type_keys : \A i \in DOMAIN type_keys[t] :
          type_keys[t][i][1] \notin {None, 0}
    /\ \A i \in DOMAIN tables : \A j \in DOMAIN tables[i].rows :
          tables[i].rows[j][1] \notin {None, 0}
    /\ Observations(type_keys) = BagCardinality(fed)

\* C7 (Zero-memory exclusion): an inspection whose memory reply is zero or
\* absent leaves every bucket, the set of buckets and both counters as they
\* were and goes on with the next key; no recorded tuple or ranked row has a
\* zero or absent memory.
C7_ZeroMemoryExclusion == []C7_NoneRecorded /\ [][C7_Step]_vars

\* a zero reply for the first key of a batch, the second key recorded
C7_Witness ==
    /\ LoopEnded /\ nZero = 1 /\ nFail = 0
    /\ listed = 2 /\ scanned = 1 /\ Len(calls) = 1
    /\ DOMAIN type_keys = {"hash"}

-----------------------------------------------------------------------------
(* C8 *)

\* C8 (Exactly-once visiting): with every inspection succeeding, each listed
\* key name is recorded exactly once and no ranked table shows a name twice.
C8_ExactlyOnce ==
    (LoopEnded /\ nFail = 0 /\ nZero = 0)
        => /\ \A k \in listedKeys : NameCount(k) = 1
           /\ \A i \in DOMAIN tables :
                 \A j, l \in DOMAIN tables[i].rows :
                    tables[i].rows[j][2] = tables[i].rows[l][2] => j = l

-----------------------------------------------------------------------------
(* C9 *)

C9_Ended ==
    scanFailed => /\ pc = "aborted"
                  /\ tables = <<>>
                  /\ summary = <<>>
                  /\ calls[Len(calls)][2] = None

C9_NothingLater ==
    scanFailed => UNCHANGED <<calls, keys, type_keys, scanned, errors, nFail, nZero,
                              tables, summary, pc>>

\* C9 (Fatal enumeration failure): once an r.scan call has raised, the run is
\* over: that call is the last one, no inspection follows, and neither the
\* tables nor the summary are printed, whatever was aggregated before.
C9_FatalScanFailure == []C9_Ended /\ [][C9_NothingLater]_vars

\* the second call raises after a first batch was aggregated
C9_Witness ==
    /\ scanFailed
    /\ Len(calls) = 2
    /\ Observations(type_keys) = 2

-----------------------------------------------------------------------------
(* C10 *)

InDisplayOrder(t) == t \in Range(DisplayOrder)

\* C10 (Report coverage): after a completed scan every observed type has a
\* table; the tables of string, list, set, zset, hash, stream come in that
\* order, the tables of other types after them; the summary lists every
\* observed type once, sorted by name.
C10_ReportCoverage ==
    LoopEnded =>
        /\ \A t \in DOMAIN type_keys : \E i \in DOMAIN tables : TableTypes[i] = t
        /\ LET Observed(t) == t \in DOMAIN type_keys
           IN SelectSeq(TableTypes, InDisplayOrder) = SelectSeq(DisplayOrder, Observed)
        /\ \A i, j \in DOMAIN tables :
              (i < j /\ ~InDisplayOrder(TableTypes[i])) => ~InDisplayOrder(TableTypes[j])
        /\ Range(SummaryTypes) = DOMAIN type_keys
        /\ Len(summary) = Cardinality(DOMAIN type_keys)
        /\ \A i, j \in DOMAIN summary :
              i < j => LexLess(Chars[SummaryTypes[i]], Chars[SummaryTypes[j]])

====
